---- MODULE Spec2Model ----
(***************************************************************************)
(* Model of the supplier price pipeline of scladro_price_compare:          *)
(*   processor/process_data.py          the run orchestrator and main()     *)
(*   processor/suppliers/altacera.py    the Altacera adapter                *)
(*   processor/suppliers/mir_keramiki.py the Mir Keramiki adapter           *)
(*                                                                         *)
(* A pandas DataFrame is a record                                          *)
(*   [none, columns, index, dtypes, rows]                                  *)
(* with the column labels, the index labels, the dtype of each column and  *)
(* the rows (records n, u, a, p: name, unit, article, price).              *)
(* Prices are fixed-point numbers counted in tenths (12.5 is 125), text    *)
(* cells are strings, and the two missing values of pandas are the cells   *)
(* None (Python None) and NaN (float nan).  Column labels are written in   *)
(* Latin letters.                                                          *)
(***************************************************************************)
EXTENDS Integers, Sequences, FiniteSets, TLC

VARIABLES clock, ledger, files, dirs, pc, outcome, run

vars == <<clock, ledger, files, dirs, pc, outcome, run>>

(***************************************************************************)
(* Bounds of the model.                                                    *)
(***************************************************************************)
MaxDate == 2
MaxRows == 2
MaxFaults == 1
MaxAttempts == 3

(***************************************************************************)
(* Cell values.                                                            *)
(***************************************************************************)
None == "<None>"
NaN == "<NaN>"
NaNNum == -1

IsNA(x) == x = None \/ x = NaN

Range(s) == {s[i] : i \in 1..Len(s)}

\* the one element of a singleton set
Only(S) == CHOOSE x \in S : TRUE

RECURSIVE SeqsUpTo(_, _)
SeqsUpTo(S, n) ==
    IF n = 0 THEN {<<>>}
    ELSE LET shorter == SeqsUpTo(S, n - 1)
         IN  shorter \cup {Append(s, e) : s \in {t \in shorter : Len(t) = n - 1}, e \in S}

(***************************************************************************)
(* Raw JSON values are tokens: "0", "5", "10" and "12.5" are the JSON       *)
(* numbers, "abc" is a JSON string and None is null or a missing key.      *)
(* pandas.to_numeric(errors='coerce') on one cell: a number gives its      *)
(* value (in tenths), anything else gives NaN.                             *)
(***************************************************************************)
ToNumeric(tok) ==
    CASE tok = "0" -> 0
      [] tok = "5" -> 50
      [] tok = "10" -> 100
      [] tok = "12.5" -> 125
      [] OTHER -> NaNNum

\* whether to_numeric parses the cell as an integer (no fraction part)
ParsesAsInt(tok) == tok \in {"0", "5", "10"}

FillNa0(v) == IF v = NaNNum THEN 0 ELSE v

\* dtype of the price column after to_numeric(...).fillna(0)
PriceDtype(toks) ==
    IF \A i \in 1..Len(toks) : ParsesAsInt(toks[i]) THEN "int64" ELSE "float64"

NoneDF == [none |-> TRUE]

AltaceraColumns == <<"Nazvanie", "Edinica izmereniya", "Artikul", "Cena">>
MirColumns == <<"Name", "Article", "Unit", "PriceDiler2">>

\* DataFrame.drop_duplicates(subset=[article], keep='last'): the positions kept.
\* Missing articles count as equal to each other.
SameKey(x, y) == (IsNA(x) /\ IsNA(y)) \/ x = y

KeepLast(rows) ==
    {i \in 1..Len(rows) : \A j \in (i + 1)..Len(rows) : ~SameKey(rows[j].a, rows[i].a)}

RECURSIVE SortedSeq(_)
SortedSeq(S) ==
    IF S = {} THEN <<>>
    ELSE LET m == CHOOSE x \in S : \A y \in S : x <= y
         IN  <<m>> \o SortedSeq(S \ {m})

(***************************************************************************)
(* AltaceraProcess.create_unified_xlsx, lines 45-91, on a fetched payload  *)
(* [nom, price]: nom a sequence of items [tovar_id, artikul, tovar, units],*)
(* price a sequence of blocks, each a sequence of [tovar_id, unit_id,      *)
(* price].  A missing JSON field is None.                                  *)
(***************************************************************************)
\* Python truthiness of a raw value: None, the number 0 and "" are falsy
Falsy(x) == x \in {None, "0", ""}

\* lines 48-64: the last item that sets a (tovar_id, unit_id) key wins
RECURSIVE MappingOfUnits(_, _, _)
MappingOfUnits(item, units, mapping) ==
    IF units = <<>> THEN mapping
    ELSE LET unit == Head(units)
             key == <<item.tovar_id, unit.unit_id>>
             info == [n |-> item.tovar, u |-> unit.unit, a |-> item.artikul]
             next == IF Falsy(unit.unit_id) THEN mapping
                     ELSE [k \in DOMAIN mapping \cup {key} |->
                              IF k = key THEN info ELSE mapping[k]]
         IN  MappingOfUnits(item, Tail(units), next)

RECURSIVE Mapping(_, _)
Mapping(nom_data, mapping) ==
    IF nom_data = <<>> THEN mapping
    ELSE LET item == Head(nom_data)
         IN  Mapping(Tail(nom_data),
                     IF Falsy(item.tovar_id) THEN mapping
                     ELSE MappingOfUnits(item, item.units, mapping))

RECURSIVE Flatten(_)
Flatten(blocks) ==
    IF blocks = <<>> THEN <<>> ELSE Head(blocks) \o Flatten(Tail(blocks))

\* lines 66-80: one row per price item that has ids, a truthy price and a
\* mapping entry; the row keeps the raw price
RECURSIVE UnifiedData(_, _)
UnifiedData(price_items, mapping) ==
    IF price_items = <<>> THEN <<>>
    ELSE LET it == Head(price_items)
             key == <<it.tovar_id, it.unit_id>>
             rest == UnifiedData(Tail(price_items), mapping)
         IN  IF Falsy(it.tovar_id) \/ Falsy(it.unit_id) \/ Falsy(it.price)
                THEN rest
             ELSE IF key \in DOMAIN mapping
                THEN <<[n |-> mapping[key].n, u |-> mapping[key].u,
                        a |-> mapping[key].a, p |-> it.price]>> \o rest
             ELSE rest

\* lines 82-91: the frame, the price coercion and the de-duplication
AltaceraFrame(unified_data) ==
    LET rows == [i \in 1..Len(unified_data) |->
                    [unified_data[i] EXCEPT !.p = FillNa0(ToNumeric(unified_data[i].p))]]
        kept == SortedSeq(KeepLast(rows))
    IN  [none |-> FALSE,
         columns |-> AltaceraColumns,
         index |-> [k \in 1..Len(kept) |-> kept[k] - 1],
         dtypes |-> <<"object", "object", "object",
                      PriceDtype([i \in 1..Len(unified_data) |-> unified_data[i].p])>>,
         rows |-> [k \in 1..Len(kept) |-> rows[kept[k]]]]

AltaceraUnified(data) ==
    AltaceraFrame(UnifiedData(Flatten(data.price), Mapping(data.nom, <<>>)))

(***************************************************************************)
(* MirKeramiki.create_unified_xlsx, lines 38-55, on the decoded JSON list: *)
(* items [Name, Article, Unit, PriceDiler2]; a key the item lacks is the   *)
(* cell Absent and takes the default of item.get.                          *)
(***************************************************************************)
Absent == "<absent>"

GetOr(x, default) == IF x = Absent THEN default ELSE x

MirUnified(raw_data) ==
    LET toks == [i \in 1..Len(raw_data) |-> GetOr(raw_data[i].PriceDiler2, "0")]
    IN  [none |-> FALSE,
         columns |-> MirColumns,
         index |-> [i \in 1..Len(raw_data) |-> i - 1],
         dtypes |-> <<"object", "object", "object", PriceDtype(toks)>>,
         rows |-> [i \in 1..Len(raw_data) |->
                     [n |-> GetOr(raw_data[i].Name, ""),
                      a |-> GetOr(raw_data[i].Article, ""),
                      u |-> GetOr(raw_data[i].Unit, ""),
                      p |-> FillNa0(ToNumeric(toks[i]))]]]

(***************************************************************************)
(* The spreadsheet codec.  DataFrame.to_excel(path, index=False) writes    *)
(* the header and the cells and drops the index; a missing value and the   *)
(* empty string are written as an empty cell.  pandas.read_excel gives the *)
(* cells back with a fresh 0..n-1 index, NaN for every empty cell and the  *)
(* dtypes inferred from the cells: an all-empty text column is float64, a  *)
(* number column whose cells are all whole numbers is int64, and the       *)
(* columns of a sheet with no rows are object.                             *)
(***************************************************************************)
Empty == "<empty>"

NoFile == [missing |-> TRUE]

ToCell(x) == IF IsNA(x) \/ x = "" THEN Empty ELSE x

FromCell(x) == IF x = Empty THEN NaN ELSE x

to_excel(df) ==
    [missing |-> FALSE,
     columns |-> df.columns,
     cells |-> [i \in 1..Len(df.rows) |->
                  [n |-> ToCell(df.rows[i].n), u |-> ToCell(df.rows[i].u),
                   a |-> ToCell(df.rows[i].a), p |-> df.rows[i].p]]]

TextDtypeRead(cells) ==
    IF Len(cells) > 0 /\ \A i \in 1..Len(cells) : cells[i] = Empty
       THEN "float64" ELSE "object"

NumDtypeRead(cells) ==
    IF Len(cells) = 0 THEN "object"
    ELSE IF \A i \in 1..Len(cells) : cells[i] % 10 = 0 THEN "int64"
    ELSE "float64"

\* the dtypes in the order of the frame's columns (the article column is the
\* third of an Altacera sheet and the second of a Mir Keramiki sheet)
DtypesRead(sheet) ==
    LET col(f) == [i \in 1..Len(sheet.cells) |-> sheet.cells[i][f]]
    IN  IF sheet.columns = AltaceraColumns
           THEN <<TextDtypeRead(col("n")), TextDtypeRead(col("u")),
                  TextDtypeRead(col("a")), NumDtypeRead(col("p"))>>
           ELSE <<TextDtypeRead(col("n")), TextDtypeRead(col("a")),
                  TextDtypeRead(col("u")), NumDtypeRead(col("p"))>>

read_excel(sheet) ==
    [none |-> FALSE,
     columns |-> sheet.columns,
     index |-> [i \in 1..Len(sheet.cells) |-> i - 1],
     dtypes |-> DtypesRead(sheet),
     rows |-> [i \in 1..Len(sheet.cells) |->
                 [n |-> FromCell(sheet.cells[i].n), u |-> FromCell(sheet.cells[i].u),
                  a |-> FromCell(sheet.cells[i].a), p |-> sheet.cells[i].p]]]

(***************************************************************************)
(* DataFrame.equals: the same column labels, the same index labels, the    *)
(* same dtype in every column and the same cells in the same positions,    *)
(* missing values in the same place counting as equal.                     *)
(***************************************************************************)
CellEq(x, y) == (IsNA(x) /\ IsNA(y)) \/ x = y

RowEq(r, s) == CellEq(r.n, s.n) /\ CellEq(r.u, s.u) /\ CellEq(r.a, s.a) /\ r.p = s.p

DataFrameEquals(df, other) ==
    /\ df.columns = other.columns
    /\ df.index = other.index
    /\ df.dtypes = other.dtypes
    /\ Len(df.rows) = Len(other.rows)
    /\ \A i \in 1..Len(df.rows) : RowEq(df.rows[i], other.rows[i])

(***************************************************************************)
(* Paths and the file_records table.                                       *)
(***************************************************************************)
NULL == [dir |-> "NULL", date |-> 0, file |-> "NULL"]

UnifiedPath(dir, date) == [dir |-> dir, date |-> date, file |-> "unified.xlsx"]

ReportPath(dir, date) == [dir |-> dir, date |-> date, file |-> "report.xlsx"]

\* SELECT current_unified_path FROM file_records WHERE supplier_name = %s
\* ORDER BY date DESC LIMIT 1, then result_row[0] if result_row else None
LatestCurrentPath(table, supplier_name) ==
    LET mine == {r \in table : r.supplier_name = supplier_name}
    IN  IF mine = {} THEN NULL
        ELSE (CHOOSE r \in mine : \A q \in mine : q.date <= r.date).current_unified_path

\* the upsert with a slip: a run without a report is not recorded
UpsertOnlyWithReport(table, rec) ==
    IF rec.report_path = NULL THEN table
    ELSE {r \in table : r.date # rec.date} \cup {rec}

\* INSERT ... ON CONFLICT (date) DO UPDATE SET the three paths and supplier_name
Upsert(table, rec) == {r \in table : r.date # rec.date} \cup {rec}


(***************************************************************************)
(* The suppliers main() runs, in order.  main() calls process_any_supplier *)
(* once per supplier, one call after the other (the second call follows    *)
(* the pattern main() documents for adding a supplier).  An entry gives    *)
(* the processor class (which fixes the storage directory) and the         *)
(* supplier_name written to the table.                                     *)
(***************************************************************************)
Registry == <<[cls |-> "altacera", supplier_name |-> "altacera"],
              [cls |-> "mir_keramiki", supplier_name |-> "mir_keramiki"]>>

Dates == 1..MaxDate

Dirs == {Registry[i].cls : i \in 1..Len(Registry)}

FileAt(fs, path) == fs[<<path.dir, path.date>>]

(***************************************************************************)
(* get_raw_files and create_unified_xlsx.  A fetch is [kind, data]:        *)
(* "ok" with the payload, "request_error" (requests raises) or "corrupt"   *)
(* (a bad archive, or bytes that are not the expected JSON).               *)
(* AltaceraProcess.get_raw_files catches only requests.RequestException    *)
(* and returns None for it; MirKeramiki.get_raw_files catches nothing.     *)
(***************************************************************************)
FetchRaises(cls, fetch) ==
    \/ cls = "altacera" /\ fetch.kind = "corrupt"
    \/ cls = "mir_keramiki" /\ fetch.kind \in {"request_error", "corrupt"}

\* The requests one call of get_raw_files makes, out of the answers the supplier
\* would give to one request after the other: there is no loop around
\* requests.get, the call returns or raises on the first answer.
Asked(cls, answers) == SubSeq(answers, 1, 1)

create_unified_xlsx(cls, fetch) ==
    IF cls = "altacera"
       THEN IF fetch.kind = "request_error" THEN NoneDF ELSE AltaceraUnified(fetch.data)
       ELSE IF fetch.data = <<>> THEN NoneDF ELSE MirUnified(fetch.data)

(***************************************************************************)
(* check_for_changes (the same code in both adapters).  today is the date  *)
(* read at its first line; env.disk is what the disk answers for the       *)
(* previous file ("ok", "missing", "unreadable"), env.db what the database *)
(* does ("ok", "read_error", "write_error").  prev_load records how the    *)
(* load of the previous table went: "no_record", "null_path", "missing",   *)
(* "unreadable" or "loaded".                                               *)
(***************************************************************************)
\* lines 106-148: current_df is the table create_unified_xlsx returned
SaveAndCompare(cls, supplier_name, today, env, table, fs, ds, current_df) ==
    LET current_unified_path == UnifiedPath(cls, today)
        fs1 == [fs EXCEPT ![<<cls, today>>] = to_excel(current_df)]
        ds1 == ds \cup {<<cls, today>>}
        previous_unified_path == LatestCurrentPath(table, supplier_name)
        exists == /\ ~FileAt(fs1, previous_unified_path).missing
                  /\ env.disk # "missing"
        previous_df == read_excel(FileAt(fs1, previous_unified_path))
        saved == [raised |-> FALSE, has_changes |-> FALSE,
                  current_unified_path |-> current_unified_path,
                  previous_unified_path |-> NULL,
                  current_df |-> current_df, previous_df |-> NoneDF,
                  prev_load |-> "not_tried", files |-> fs1, dirs |-> ds1]
        looked == [saved EXCEPT !.previous_unified_path = previous_unified_path]
    IN  IF env.db = "read_error"
           THEN [saved EXCEPT !.raised = TRUE]
        ELSE IF previous_unified_path = NULL
           THEN [looked EXCEPT !.prev_load =
                    IF \E r \in table : r.supplier_name = supplier_name
                       THEN "null_path" ELSE "no_record"]
        ELSE IF ~exists
           THEN [looked EXCEPT !.prev_load = "missing"]
        ELSE IF env.disk = "unreadable"
           THEN [looked EXCEPT !.prev_load = "unreadable"]
        ELSE Only({[looked EXCEPT !.has_changes = ~DataFrameEquals(current_df, prev),
                                  !.previous_df = prev,
                                  !.prev_load = "loaded"] : prev \in {previous_df}})

check_for_changes(cls, supplier_name, today, env, table, fs, ds) ==
    LET stopped == [raised |-> FALSE, has_changes |-> FALSE,
                    current_unified_path |-> NULL, previous_unified_path |-> NULL,
                    current_df |-> NoneDF, previous_df |-> NoneDF,
                    prev_load |-> "not_tried", files |-> fs, dirs |-> ds]
    IN  IF FetchRaises(cls, env.fetch)
           THEN [stopped EXCEPT !.raised = TRUE]
        ELSE Only({IF current_df.none THEN stopped
                   ELSE SaveAndCompare(cls, supplier_name, today, env, table, fs, ds,
                                       current_df) :
                      current_df \in {create_unified_xlsx(cls, env.fetch)}})

(***************************************************************************)
(* create_report_in_date_folder, the detailed branch: the outer merge of   *)
(* previous_df and current_df on the article column and the three tables   *)
(* cut from it.  The tables are sets of rows.  merge matches missing keys  *)
(* with each other; != on two cells is true when either is NaN.            *)
(***************************************************************************)
Ne(x, y) == x = NaN \/ y = NaN \/ x # y

HasKey(df, key) == \E i \in 1..Len(df.rows) : SameKey(df.rows[i].a, key)

new_items(previous_df, current_df) ==
    {current_df.rows[i] : i \in {j \in 1..Len(current_df.rows) :
                                    ~HasKey(previous_df, current_df.rows[j].a)}}

removed_items(previous_df, current_df) ==
    {previous_df.rows[i] : i \in {j \in 1..Len(previous_df.rows) :
                                     ~HasKey(current_df, previous_df.rows[j].a)}}

changed_items(previous_df, current_df) ==
    {current_df.rows[i] : i \in {j \in 1..Len(current_df.rows) :
        \E k \in 1..Len(previous_df.rows) :
            /\ SameKey(previous_df.rows[k].a, current_df.rows[j].a)
            /\ \/ Ne(previous_df.rows[k].n, current_df.rows[j].n)
               \/ Ne(previous_df.rows[k].u, current_df.rows[j].u)
               \/ previous_df.rows[k].p # current_df.rows[j].p}}

\* pd.merge(..., on='Artikul') raises KeyError unless both frames have the column
MergeRaises(previous_df, current_df) ==
    \/ \A c \in 1..Len(previous_df.columns) : previous_df.columns[c] # "Artikul"
    \/ \A c \in 1..Len(current_df.columns) : current_df.columns[c] # "Artikul"

NoReport == [kind |-> "none", added |-> {}, removed |-> {}, changed |-> {}]

NoReportResult == [report_path |-> NULL, unified_path |-> NULL, report |-> NoReport]

(***************************************************************************)
(* create_report_in_date_folder.  today is the date read at its first      *)
(* line.  Writing report.xlsx fails when its date folder does not exist or *)
(* the disk refuses (env.report_io = "fail"); every exception is caught    *)
(* and gives (None, current_unified_path).                                 *)
(***************************************************************************)
create_report_in_date_folder(cls, today, env, chk) ==
    LET writable == <<cls, today>> \in chk.dirs /\ env.report_io = "ok"
        failed == [report_path |-> NULL, unified_path |-> chk.current_unified_path,
                   report |-> NoReport]
    IN  IF ~chk.has_changes
           THEN IF writable
                   THEN [report_path |-> ReportPath(cls, today),
                         unified_path |-> chk.current_unified_path,
                         report |-> [NoReport EXCEPT !.kind = "status"]]
                   ELSE failed
        ELSE IF MergeRaises(chk.previous_df, chk.current_df) \/ ~writable
           THEN failed
        ELSE [report_path |-> ReportPath(cls, today),
              unified_path |-> chk.current_unified_path,
              report |-> [kind |-> "detail",
                          added |-> new_items(chk.previous_df, chk.current_df),
                          removed |-> removed_items(chk.previous_df, chk.current_df),
                          changed |-> changed_items(chk.previous_df, chk.current_df)]]

(***************************************************************************)
(* process_any_supplier: the whole run of one supplier.  d0, d1, d2 and d3 *)
(* are the dates the clock shows at the four places the run reads it       *)
(* (create_date_folder_with_changes, check_for_changes,                    *)
(* create_report_in_date_folder, process_any_supplier).  The result is the *)
(* table, the files and the folders after the run and the record of the    *)
(* run: "Done" when it returned, "Raised" when an exception left it;       *)
(* aborted tells that the adapter produced no current table.               *)
(***************************************************************************)
NoRec == [date |-> 0, supplier_name |-> "NULL", current_unified_path |-> NULL,
          previous_unified_path |-> NULL, report_path |-> NULL]

\* lines 36-52, after the two calls: chk is what check_for_changes returned and
\* rep what create_report_in_date_folder returned
Persist(entry, d3, env, table, chk, rep) ==
    LET rec == [date |-> d3, supplier_name |-> entry.supplier_name,
                current_unified_path |-> rep.unified_path,
                previous_unified_path |-> chk.previous_unified_path,
                report_path |-> rep.report_path]
        info == [none |-> FALSE, cls |-> entry.cls,
                 supplier_name |-> entry.supplier_name,
                 status |-> "Raised", aborted |-> chk.current_df.none,
                 has_changes |-> chk.has_changes,
                 current_df |-> chk.current_df, previous_df |-> chk.previous_df,
                 current_unified_path |-> chk.current_unified_path,
                 previous_unified_path |-> chk.previous_unified_path,
                 prev_load |-> chk.prev_load,
                 answers |-> <<env.fetch.kind>> \o env.later,
                 attempts |-> Len(Asked(entry.cls, <<env.fetch.kind>> \o env.later)),
                 db |-> env.db,
                 raw |-> env.fetch.data,
                 report_path |-> NULL, report |-> NoReport, record |-> NoRec]
    IN  IF chk.raised
           THEN [table |-> table, files |-> chk.files, dirs |-> chk.dirs, run |-> info]
        ELSE IF env.db = "write_error"
           THEN [table |-> table, files |-> chk.files, dirs |-> chk.dirs,
                 run |-> [info EXCEPT !.report_path = rep.report_path,
                                      !.report = rep.report]]
        ELSE [table |-> Upsert(table, rec), files |-> chk.files, dirs |-> chk.dirs,
              run |-> [info EXCEPT !.status = "Done",
                                   !.report_path = rep.report_path,
                                   !.report = rep.report, !.record = rec]]

process_any_supplier(entry, d0, d1, d2, d3, env, table, fs, ds) ==
    Only({Persist(entry, d3, env, table, chk,
                  IF chk.raised THEN NoReportResult
                  ELSE create_report_in_date_folder(entry.cls, d2, env, chk)) :
             chk \in {check_for_changes(entry.cls, entry.supplier_name, d1, env, table,
                                        fs, ds \cup {<<entry.cls, d0>>})}})

(***************************************************************************)
(* What the suppliers send.  The Altacera catalogue has three products,    *)
(* the third without a name; a price list prices some of them.             *)
(***************************************************************************)
NomData ==
    <<[tovar_id |-> "t1", artikul |-> "a1", tovar |-> "Tile A",
       units |-> <<[unit_id |-> "u1", unit |-> "pcs"]>>],
      [tovar_id |-> "t2", artikul |-> "b1", tovar |-> "Tile B",
       units |-> <<[unit_id |-> "u1", unit |-> "pcs"]>>],
      [tovar_id |-> "t3", artikul |-> "c1", tovar |-> None,
       units |-> <<[unit_id |-> "u1", unit |-> "pcs"]>>]>>

PriceItem(t, p) == [tovar_id |-> t, unit_id |-> "u1", price |-> p]

AltaceraPayload(price_list) == [nom |-> NomData, price |-> <<price_list>>]

MirItem(a, p) == [Name |-> "Tile", Article |-> a, Unit |-> "pcs", PriceDiler2 |-> p]

Ok(data) == [kind |-> "ok", data |-> data]

Failed(kind) == [kind |-> kind, data |-> <<>>]

\* the fetches of the pipeline specification
Fetches(cls) ==
    IF cls = "altacera"
       THEN {Ok(AltaceraPayload(<<PriceItem("t1", "10")>>)),
             Ok(AltaceraPayload(<<PriceItem("t1", "12.5"), PriceItem("t2", "5")>>)),
             Failed("request_error"), Failed("corrupt")}
       ELSE {Ok(<<MirItem("a1", "10")>>), Ok(<<>>),
             Failed("request_error"), Failed("corrupt")}

\* how many things go wrong in one run
Faults(env) ==
    (IF env.fetch.kind = "ok" THEN 0 ELSE 1) + (IF env.disk = "ok" THEN 0 ELSE 1)
    + (IF env.report_io = "ok" THEN 0 ELSE 1) + (IF env.db = "ok" THEN 0 ELSE 1)

\* what the supplier would answer to the further requests after a failed one
LaterAnswers ==
    {s \in SeqsUpTo({"ok", "request_error"}, MaxAttempts - 1) : Len(s) = MaxAttempts - 1}

Laters(fetch) == IF fetch.kind = "request_error" THEN LaterAnswers ELSE {<<>>}

\* the environments of one run, per processor class
EnvsOf ==
    [cls \in Dirs |->
        {env \in [fetch : Fetches(cls), disk : {"ok", "missing", "unreadable"},
                  report_io : {"ok", "fail"}, db : {"ok", "read_error", "write_error"},
                  later : LaterAnswers \cup {<<>>}] :
            Faults(env) <= MaxFaults /\ env.later \in Laters(env.fetch)}]

Envs(cls) == EnvsOf[cls]

(***************************************************************************)
(* The state: the clock's date, the file_records table, the unified.xlsx   *)
(* files and the date folders on disk, main()'s position in the registry,  *)
(* how each supplier's run of this cycle ended, and the last run.          *)
(***************************************************************************)
EndPc == Len(Registry) + 1

NoOutcome == [i \in 1..Len(Registry) |-> "none"]

Init == /\ clock = 1
        /\ ledger = {}
        /\ files = [f \in Dirs \X Dates |-> NoFile]
        /\ dirs = {}
        /\ pc = 1
        /\ outcome = NoOutcome
        /\ run = NoneDF

\* one call of process_any_supplier; main() goes on to `after` when the call
\* returns, and an exception ends main()
RunWith(envs, after) ==
    /\ pc \in 1..Len(Registry)
    /\ \E env \in envs, d0, d1, d2, d3 \in Dates :
          /\ clock <= d0 /\ d0 <= d1 /\ d1 <= d2 /\ d2 <= d3 /\ d3 <= clock + 1
          /\ \E res \in {process_any_supplier(Registry[pc], d0, d1, d2, d3, env,
                                             ledger, files, dirs)} :
                 /\ ledger' = res.table
                 /\ files' = res.files
                 /\ dirs' = res.dirs
                 /\ run' = res.run
                 /\ outcome' = [outcome EXCEPT ![pc] = res.run.status]
                 /\ pc' = IF res.run.status = "Raised" THEN EndPc ELSE after
          /\ clock' = d3

RunSupplier == RunWith(Envs(Registry[pc].cls), pc + 1)

\* the scheduler starts main() again
StartCycle ==
    /\ pc = EndPc
    /\ pc' = 1
    /\ outcome' = NoOutcome
    /\ UNCHANGED <<clock, ledger, files, dirs, run>>

\* a day passes
Tick ==
    /\ clock < MaxDate
    /\ clock' = clock + 1
    /\ UNCHANGED <<ledger, files, dirs, pc, outcome, run>>

Next == RunSupplier \/ StartCycle \/ Tick

Spec == Init /\ [][Next]_vars

(***************************************************************************)
(* The comparison on its own: one supplier is run twice with nothing going *)
(* wrong, on every pair of price lists of up to MaxRows rows.              *)
(***************************************************************************)
PriceItems == {PriceItem(t, p) : t \in {"t1", "t2", "t3"}, p \in {"10", "12.5"}}

MirItems == {MirItem(a, p) : a \in {"a1", "b1"}, p \in {"10", "12.5"}}

DiffEnvs(cls) ==
    [fetch : IF cls = "altacera"
                THEN {Ok(AltaceraPayload(pl)) : pl \in SeqsUpTo(PriceItems, MaxRows)}
                ELSE {Ok(raw) : raw \in SeqsUpTo(MirItems, MaxRows)},
     disk : {"ok"}, report_io : {"ok"}, db : {"ok"}, later : {<<>>}]

InitDiff ==
    /\ clock = 1
    /\ ledger = {}
    /\ files = [f \in Dirs \X Dates |-> NoFile]
    /\ dirs = {}
    /\ pc \in 1..Len(Registry)
    /\ outcome = NoOutcome
    /\ run = NoneDF

FirstRun == run.none /\ RunWith(DiffEnvs(Registry[pc].cls), pc)

SecondRun == ~run.none /\ RunWith(DiffEnvs(Registry[pc].cls), EndPc)

NextDiff == FirstRun \/ SecondRun \/ Tick

SpecDiff == InitDiff /\ [][NextDiff]_vars

(***************************************************************************)
(* The normalisation on its own: one supplier is run once with nothing     *)
(* going wrong, on every raw list of up to MaxRows rows whose prices are   *)
(* numbers, zero, text that is no number, null or (Mir Keramiki) absent.   *)
(***************************************************************************)
RawPrices == {"10", "12.5", "0", "abc", None}

NormEnvs(cls) ==
    [fetch : IF cls = "altacera"
                THEN {Ok(AltaceraPayload(pl)) :
                         pl \in SeqsUpTo({PriceItem(t, p) : t \in {"t1", "t2", "t3"},
                                                            p \in RawPrices}, MaxRows)}
                ELSE {Ok(raw) :
                         raw \in SeqsUpTo({MirItem(a, p) : a \in {"a1", "b1"},
                                                           p \in RawPrices \cup {Absent}},
                                          MaxRows)},
     disk : {"ok"}, report_io : {"ok"}, db : {"ok"}, later : {<<>>}]

NormRun == run.none /\ RunWith(NormEnvs(Registry[pc].cls), EndPc)

NextNorm == NormRun \/ Tick

SpecNorm == InitDiff /\ [][NextNorm]_vars

(***************************************************************************)
(* The tables of a finished run, read off the run record.                  *)
(***************************************************************************)
Finished == ~run.none /\ run.status = "Done"

Compared == Finished /\ run.prev_load = "loaded"

Rows(df) == IF df.none THEN {} ELSE Range(df.rows)

\* the business keys of a set of rows (a missing article is one key)
Keys(rows) == {IF IsNA(r.a) THEN NaN ELSE r.a : r \in rows}

Count(k, S) == IF k \in S THEN 1 ELSE 0

HasRowFor(rows, key) == \E r \in rows : SameKey(r.a, key)

\* the same name, unit and price, a missing cell being equal to a missing cell
SameFields(r, q) == CellEq(r.n, q.n) /\ CellEq(r.u, q.u) /\ r.p = q.p

UniqueKeys(df) ==
    \A i, j \in 1..Len(df.rows) : SameKey(df.rows[i].a, df.rows[j].a) => i = j

\* what the claims call added, removed, changed and unchanged
ExpectedAdded == {c \in Rows(run.current_df) : ~HasRowFor(Rows(run.previous_df), c.a)}

ExpectedRemoved == {q \in Rows(run.previous_df) : ~HasRowFor(Rows(run.current_df), q.a)}

ExpectedChanged ==
    {c \in Rows(run.current_df) :
        \E q \in Rows(run.previous_df) : SameKey(q.a, c.a) /\ ~SameFields(q, c)}

Unchanged ==
    {c \in Rows(run.current_df) :
        \E q \in Rows(run.previous_df) : SameKey(q.a, c.a) /\ SameFields(q, c)}

\* a run of process_any_supplier is the step that moves pc off a registry entry
RunStep == pc \in 1..Len(Registry) /\ pc' # pc

(***************************************************************************)
(* C1: the table holds at most one record per (date, supplier_name), and   *)
(* no step removes or overwrites the record of a (date, supplier_name): a  *)
(* record written for one supplier on a date is still there, under that    *)
(* supplier's name, after any other supplier's run on the same date.       *)
(***************************************************************************)
C1_RowsOfOtherSuppliersKept ==
    [][/\ \A r \in ledger : \E q \in ledger' :
             q.date = r.date /\ q.supplier_name = r.supplier_name
       /\ \A q1, q2 \in ledger' :
             (q1.date = q2.date /\ q1.supplier_name = q2.supplier_name) => q1 = q2]_vars

(***************************************************************************)
(* C2: a run in which the adapter produced no current table leaves the     *)
(* file_records table as it was.                                           *)
(***************************************************************************)
C2_AbortedRunWritesNoRecord ==
    [][(RunStep /\ run'.aborted) => ledger' = ledger]_vars

(***************************************************************************)
(* C3: a finished run that found no ledger record for its supplier has     *)
(* has_changes = TRUE, reports the whole current table as added and        *)
(* nothing as removed or changed.                                          *)
(***************************************************************************)
C3_FirstRunReportsAllAdded ==
    (Finished /\ ~run.aborted /\ run.prev_load = "no_record")
        => /\ run.has_changes
           /\ run.report.added = Rows(run.current_df)
           /\ run.report.removed = {}
           /\ run.report.changed = {}

(***************************************************************************)
(* C4: when the previous table was loaded, has_changes is TRUE exactly     *)
(* when some row is added, removed or changed.                             *)
(***************************************************************************)
C4_HasChangesIffSomeDifference ==
    Compared =>
        (run.has_changes <=>
            (ExpectedAdded \cup ExpectedRemoved \cup ExpectedChanged) # {})

(***************************************************************************)
(* C5: when the current table is the table stored as the previous snapshot *)
(* on an earlier date, has_changes is FALSE and nothing is reported as     *)
(* added, removed or changed.                                              *)
(***************************************************************************)
C5_SameTableNoChanges ==
    (/\ Compared
     /\ run.previous_unified_path.date # run.current_unified_path.date
     /\ read_excel(to_excel(run.current_df)) = run.previous_df)
        => /\ ~run.has_changes
           /\ run.report.added = {}
           /\ run.report.removed = {}
           /\ run.report.changed = {}

(***************************************************************************)
(* C6: in every finished run the keys reported as added, removed and       *)
(* changed are pairwise disjoint, and every key of the previous or current *)
(* table is in exactly one of added, removed, changed and unchanged.       *)
(***************************************************************************)
C6_Partition ==
    (Finished /\ ~run.aborted) =>
        LET A == Keys(run.report.added)
            R == Keys(run.report.removed)
            C == Keys(run.report.changed)
            U == Keys(Unchanged)
        IN  /\ A \cap R = {} /\ A \cap C = {} /\ R \cap C = {}
            /\ \A k \in Keys(Rows(run.previous_df)) \cup Keys(Rows(run.current_df)) :
                  Count(k, A) + Count(k, R) + Count(k, C) + Count(k, U) = 1

(***************************************************************************)
(* C7: when main() has ended, every supplier of the registry has been run  *)
(* in this cycle.                                                          *)
(***************************************************************************)
C7_EverySupplierRunEachCycle ==
    pc = EndPc => \A i \in 1..Len(Registry) : outcome[i] # "none"

(***************************************************************************)
(* C8: a run whose supplier's latest record has a null, missing or         *)
(* unreadable current_unified_path is a first run: when nothing else goes  *)
(* wrong it finishes with has_changes = TRUE and the whole current table   *)
(* reported as added.                                                      *)
(***************************************************************************)
C8_UnreadablePreviousIsFirstRun ==
    (~run.none /\ run.prev_load \in {"null_path", "missing", "unreadable"})
        => (run.status = "Done"
            => /\ run.has_changes
               /\ run.report.added = Rows(run.current_df))

(***************************************************************************)
(* C9: the previous snapshot of a run is never the file the run itself     *)
(* wrote, and no record has a previous_unified_path equal to its own       *)
(* current_unified_path.                                                   *)
(***************************************************************************)
C9_PreviousIsAnEarlierSnapshot ==
    /\ Compared => run.previous_unified_path # run.current_unified_path
    /\ \A r \in ledger :
          r.previous_unified_path = NULL
          \/ r.previous_unified_path # r.current_unified_path

(***************************************************************************)
(* C10: for a loaded previous table and a current table with unique keys,  *)
(* the report has as added the current rows whose key is new, as removed   *)
(* the previous rows whose key is gone, and as changed the current rows    *)
(* whose key is in both tables with a different name, unit or price; rows  *)
(* with the same three fields are in none of them.                         *)
(***************************************************************************)
C10_Classification ==
    (Compared /\ UniqueKeys(run.previous_df) /\ UniqueKeys(run.current_df))
        => /\ run.report.added = ExpectedAdded
           /\ run.report.removed = ExpectedRemoved
           /\ run.report.changed = ExpectedChanged

(***************************************************************************)
(* C11: a run ends without a current table after request errors only when  *)
(* three requests were made and all failed; after a corrupt payload it     *)
(* ends at once, with one request made; and when a request error is        *)
(* followed, within three requests, by an answer that is good, the run     *)
(* goes on with a current table.                                           *)
(***************************************************************************)
C11_BoundedRetries ==
    ~run.none =>
        /\ (run.aborted /\ run.answers[1] = "request_error")
              => /\ run.attempts = 3
                 /\ \A i \in 1..3 : run.answers[i] = "request_error"
        /\ run.answers[1] = "corrupt" => (run.aborted /\ run.attempts = 1)
        /\ (/\ run.answers[1] = "request_error"
            /\ \E i \in 2..3 : run.answers[i] = "ok")
              => ~run.aborted

(***************************************************************************)
(* C12: a run that saved its current snapshot and found the database       *)
(* working writes its record whether or not the report was built: after    *)
(* the run the table holds the supplier's record with the path of the      *)
(* saved snapshot, and with a null report_path when building the report    *)
(* failed.                                                                 *)
(***************************************************************************)
C12_ReportFailureStillPersists ==
    [][(RunStep /\ run'.current_unified_path # NULL /\ run'.db = "ok")
         => \E r \in ledger' :
               /\ r = run'.record
               /\ r.supplier_name = run'.supplier_name
               /\ r.current_unified_path = run'.current_unified_path
               /\ r.report_path = run'.report_path
               /\ run'.report.kind = "none" => r.report_path = NULL]_vars

\* a run saved its snapshot, failed to build the report and is in the table
C12_Witness ==
    /\ ~run.none /\ run.db = "ok"
    /\ run.current_unified_path # NULL
    /\ run.report.kind = "none"
    /\ \E r \in ledger :
          /\ r = run.record
          /\ r.current_unified_path = run.current_unified_path
          /\ r.report_path = NULL

(***************************************************************************)
(* The raw rows of a run, in input order, before any row is left out: for  *)
(* Altacera the price items joined with the catalogue, for Mir Keramiki    *)
(* the items of the list.  p is the raw price.                             *)
(***************************************************************************)
RECURSIVE JoinedRows(_, _)
JoinedRows(price_items, mapping) ==
    IF price_items = <<>> THEN <<>>
    ELSE LET it == Head(price_items)
             key == <<it.tovar_id, it.unit_id>>
             rest == JoinedRows(Tail(price_items), mapping)
         IN  IF key \in DOMAIN mapping
                THEN <<[n |-> mapping[key].n, u |-> mapping[key].u,
                        a |-> mapping[key].a, p |-> it.price]>> \o rest
             ELSE rest

RawRows ==
    IF run.cls = "altacera"
       THEN JoinedRows(Flatten(run.raw.price), Mapping(run.raw.nom, <<>>))
       ELSE [i \in 1..Len(run.raw) |->
                [n |-> GetOr(run.raw[i].Name, ""), u |-> GetOr(run.raw[i].Unit, ""),
                 a |-> GetOr(run.raw[i].Article, ""),
                 p |-> GetOr(run.raw[i].PriceDiler2, "0")]]

\* the raw row is the last of the input with its business key
LastOfKey(rows, i) == \A j \in (i + 1)..Len(rows) : ~SameKey(rows[j].a, rows[i].a)

\* the price the claims give a raw price: its value (in tenths), 0 when it is
\* missing or no number
ClaimedPrice(tok) ==
    CASE tok = "10" -> 100
      [] tok = "12.5" -> 125
      [] tok = "5" -> 50
      [] OTHER -> 0

Normalized == ~run.none /\ ~run.current_df.none

(***************************************************************************)
(* C13: the table create_unified_xlsx returns has every business key at    *)
(* most once, and its row for a key is the last raw row of the input with  *)
(* that key (the same name, unit and price).                               *)
(***************************************************************************)
C13_UniqueKeysKeepLast ==
    Normalized =>
        /\ UniqueKeys(run.current_df)
        /\ \A i \in 1..Len(RawRows) :
              LastOfKey(RawRows, i) =>
                 \A r \in Rows(run.current_df) :
                    SameKey(r.a, RawRows[i].a) =>
                       /\ r.n = RawRows[i].n /\ r.u = RawRows[i].u
                       /\ r.p = ClaimedPrice(RawRows[i].p)

(***************************************************************************)
(* C14: the price coercion drops no row: every raw row that is the last of *)
(* its business key has a row in the table create_unified_xlsx returns,    *)
(* with the value of its price when the price is a number and with price 0 *)
(* when the price is missing or no number.                                 *)
(***************************************************************************)
C14_PriceCoercionKeepsRow ==
    Normalized =>
        \A i \in 1..Len(RawRows) :
           LastOfKey(RawRows, i) =>
              \E r \in Rows(run.current_df) :
                 /\ SameKey(r.a, RawRows[i].a)
                 /\ r.p = ClaimedPrice(RawRows[i].p)

(***************************************************************************)
(* C15: every record of the table has the date of the date folder of its   *)
(* current_unified_path and of its report_path, also when the date changes *)
(* between the steps of the run that wrote it.                             *)
(***************************************************************************)
C15_RecordDateIsFolderDate ==
    \A r \in ledger :
       /\ r.current_unified_path # NULL => r.current_unified_path.date = r.date
       /\ r.report_path # NULL => r.report_path.date = r.date

====
